---- MODULE Spec2Model ----
(***************************************************************************)
(* Model of drone-runner-kube:                                             *)
(*   command/exec.go          execCommand.run (the `exec` sub-command)     *)
(*   engine/compiler/util.go  helpers of the pipeline compiler             *)
(***************************************************************************)
EXTENDS Integers, Sequences, FiniteSets, TLC

(***************************************************************************)
(* Bounds of the model.                                                    *)
(***************************************************************************)
\* longest compiled step list explored for the step filter
MaxSteps == 2
\* longest --include / --exclude list explored for the step filter
MaxList == 1
\* longest compiled step list explored for the whole run
MaxRunSteps == 1
\* longest step list and longest DependsOn list given to the graph helpers
MaxGraphSteps == 2
MaxDeps == 2
\* longest include / exclude list of a status condition
MaxCond == 2
\* resource limits range over -MaxAbs..MaxAbs (and two realistic sizes)
MaxAbs == 2

(***************************************************************************)
(* Values of the runner-go runtime and drone-go packages used by run.      *)
(***************************************************************************)
RunOnSuccess == "on-success"
RunOnFailure == "on-failure"
RunAlways == "always"
RunNever == "never"
RunPolicies == {RunOnSuccess, RunOnFailure, RunAlways, RunNever}

ErrFail == "fail"
ErrIgnore == "ignore"
ErrPolicies == {ErrFail, ErrIgnore}

StatusPending == "pending"
StatusRunning == "running"
StatusPassing == "success"
StatusFailing == "failure"
StatusKilled == "killed"
StatusError == "error"
\* the statuses Exec may leave in state.Stage.Status
StageStatuses ==
  {StatusRunning, StatusPassing, StatusFailing, StatusKilled, StatusError}

\* step names of the pipelines explored; "clone" is the checkout step
StepNames == {"clone", "build", "test"}

\* engine.Step, reduced to the fields run reads and writes
Steps == [Name : StepNames, RunPolicy : RunPolicies, ErrPolicy : ErrPolicies]

\* patterns of a status condition; "*" is the glob that matches any status
StatusPatterns == {StatusPassing, StatusFailing, StatusKilled, "*"}

\* names a DependsOn entry may hold
DepNames == StepNames

\* all lists of at most n elements of S
ListsOf(S, n) == UNION {[1..k -> S] : k \in 0..n}

\* engine.Spec.Steps: lists of steps with pairwise different names
StepLists(n) ==
  {s \in ListsOf(Steps, n) :
     \A i, j \in 1..Len(s) : i # j => s[i].Name # s[j].Name}

\* engine.Step, reduced to the fields the graph helpers read and write
GraphSteps == [Name : StepNames, DependsOn : ListsOf(DepNames, MaxDeps)]

\* lists of at most n pairwise different step names
NameLists(n) ==
  {s \in ListsOf(StepNames, n) :
     \A i, j \in 1..Len(s) : i # j => s[i] # s[j]}

\* spec.Steps for the graph helpers: the steps of `names`, with `deps`
GraphList(names, deps) ==
  [i \in 1..Len(names) |-> [Name |-> names[i], DependsOn |-> deps[i]]]

\* manifest.Condition, as held in step.When.Status
Conditions ==
  [Include : ListsOf(StatusPatterns, MaxCond),
   Exclude : ListsOf(StatusPatterns, MaxCond)]

\* candidate values of a resource limit (int64; 0 means unset)
LimitValues == (-MaxAbs..MaxAbs) \cup {256, 512}

VARIABLES
  pc,          \* position of run
  Include,     \* c.Include
  Exclude,     \* c.Exclude
  compiled,    \* the steps as comp.Compile returned them (never changed)
  spec,        \* spec.Steps
  stageSteps,  \* c.Stage.Steps
  stageStatus, \* state.Stage.Status
  kubeClient,  \* number of kube.NewFromConfig calls
  execCalls,   \* number of Execer.Exec calls
  execErr,     \* Exec returned a non-nil error
  inputErr,    \* the input stage whose error run returned, or "none"
  attempts,    \* how often each input stage was run
  exit,        \* how run ended: "running", "nil", "error", "exit1"
  gop,         \* the graph helper applied: "none", "serial", "remove"
  gorig,       \* the step list handed to the graph helper
  gsteps,      \* the step list as the graph helper left it
  when,        \* step.When.Status: its Include and Exclude patterns
  runPolicy,   \* the run policy resolved from `when`, in a list
  limits,      \* the candidates of a resource limit, by priority
  limit        \* the resolved resource limit, in a list

runVars ==
  <<pc, Include, Exclude, compiled, spec, stageSteps, stageStatus, kubeClient,
    execCalls, execErr, inputErr, attempts, exit>>

helperVars == <<gop, gorig, gsteps, when, runPolicy, limits, limit>>

vars == <<runVars, helperVars>>

\* the input stages of run, in program order, and the stage that follows each
InputStageSet == {"read", "policy", "subst", "parse", "lookup", "lint"}

NextStage(s) ==
  CASE s = "read" -> "policy"
    [] s = "policy" -> "subst"
    [] s = "subst" -> "parse"
    [] s = "parse" -> "lookup"
    [] s = "lookup" -> "lint"
    [] s = "lint" -> "compile"

(***************************************************************************)
(* The step filter and the step records of execCommand.run.                *)
(***************************************************************************)
InList(name, list) == \E k \in 1..Len(list) : list[k] = name

\* faulty variant: the include loop without the exemption of the clone step
FilterIncludeNoClone(steps, inc) ==
  IF Len(inc) > 0
    THEN [i \in 1..Len(steps) |->
            IF InList(steps[i].Name, inc) THEN steps[i]
            ELSE [steps[i] EXCEPT !.RunPolicy = RunNever]]
    ELSE steps

\* the include loop
FilterInclude(steps, inc) ==
  IF Len(inc) > 0
    THEN [i \in 1..Len(steps) |->
            IF steps[i].Name = "clone" THEN steps[i]
            ELSE IF InList(steps[i].Name, inc) THEN steps[i]
            ELSE [steps[i] EXCEPT !.RunPolicy = RunNever]]
    ELSE steps

\* faulty variant: the exclude loop without the exemption of the clone step
FilterExcludeNoClone(steps, exc) ==
  IF Len(exc) > 0
    THEN [i \in 1..Len(steps) |->
            IF InList(steps[i].Name, exc)
              THEN [steps[i] EXCEPT !.RunPolicy = RunNever]
            ELSE steps[i]]
    ELSE steps

\* the exclude loop
FilterExclude(steps, exc) ==
  IF Len(exc) > 0
    THEN [i \in 1..Len(steps) |->
            IF steps[i].Name = "clone" THEN steps[i]
            ELSE IF InList(steps[i].Name, exc)
              THEN [steps[i] EXCEPT !.RunPolicy = RunNever]
            ELSE steps[i]]
    ELSE steps

\* faulty variant: the record numbered by the count of records before it
NewStepFromZero(records, step) ==
  [Number |-> Len(records),
   Name |-> step.Name,
   Status |-> StatusPending,
   ErrIgnore |-> (step.ErrPolicy = ErrIgnore)]

\* the drone.Step appended for one pipeline step
NewStep(records, step) ==
  [Number |-> Len(records) + 1,
   Name |-> step.Name,
   Status |-> StatusPending,
   ErrIgnore |-> (step.ErrPolicy = ErrIgnore)]

\* the record loop, over the first n steps
RECURSIVE CreateSteps(_, _, _)
CreateSteps(records, steps, n) ==
  IF n = 0 THEN records
  ELSE LET done == CreateSteps(records, steps, n - 1)
       IN IF steps[n].RunPolicy = RunNever
            THEN done
            ELSE Append(done, NewStep(done, steps[n]))

\* faulty variant: a killed stage is not a failure
ExitOutcomeNoKilled(err, status) ==
  IF err THEN "error"
  ELSE IF status \in {StatusError, StatusFailing} THEN "exit1"
  ELSE "nil"

\* how run ends once Exec has returned
ExitOutcome(err, status) ==
  IF err THEN "error"
  ELSE IF status \in {StatusError, StatusFailing, StatusKilled} THEN "exit1"
  ELSE "nil"

(***************************************************************************)
(* Helpers of the compiler (engine/compiler/util.go).                      *)
(***************************************************************************)
\* filepath.Match for the patterns explored
PatternMatch(pattern, v) == pattern = "*" \/ pattern = v

\* Condition.Match: not excluded, and included or nothing to include
Match(cond, v) ==
  /\ ~ \E k \in 1..Len(cond.Exclude) : PatternMatch(cond.Exclude[k], v)
  /\ \/ \E k \in 1..Len(cond.Include) : PatternMatch(cond.Include[k], v)
     \/ Len(cond.Include) = 0

\* faulty variant: no early return for a condition without patterns
isRunAlwaysNoGuard(cond) ==
  Match(cond, StatusFailing) /\ Match(cond, StatusPassing)

isRunAlways(cond) ==
  IF Len(cond.Include) = 0 /\ Len(cond.Exclude) = 0
    THEN FALSE
    ELSE Match(cond, StatusFailing) /\ Match(cond, StatusPassing)

isRunOnFailure(cond) ==
  IF Len(cond.Include) = 0 /\ Len(cond.Exclude) = 0
    THEN FALSE
    ELSE Match(cond, StatusFailing)

\* the compiler's use of the two tests: always first, on-failure second
ResolveRunPolicy(cond) ==
  IF isRunAlways(cond) THEN RunAlways
  ELSE IF isRunOnFailure(cond) THEN RunOnFailure
  ELSE RunOnSuccess

isGraph(steps) == \E i \in 1..Len(steps) : Len(steps[i].DependsOn) > 0

\* faulty variant: prev is advanced before it is used
configureSerialSelf(steps) ==
  [i \in 1..Len(steps) |-> [steps[i] EXCEPT !.DependsOn = <<steps[i].Name>>]]

configureSerial(steps) ==
  [i \in 1..Len(steps) |->
     IF i > 1
       THEN [steps[i] EXCEPT !.DependsOn = <<steps[i - 1].Name>>]
       ELSE steps[i]]

removeCloneDeps(steps) ==
  IF \E i \in 1..Len(steps) : steps[i].Name = "clone"
    THEN steps
    ELSE [i \in 1..Len(steps) |->
            IF Len(steps[i].DependsOn) = 1 /\ steps[i].DependsOn[1] = "clone"
              THEN [steps[i] EXCEPT !.DependsOn = <<>>]
              ELSE steps[i]]

\* faulty variant: the first candidate that is not zero
RECURSIVE firstNonZeroSigned(_)
firstNonZeroSigned(values) ==
  IF Len(values) = 0 THEN 0
  ELSE IF Head(values) # 0 THEN Head(values)
  ELSE firstNonZeroSigned(Tail(values))

RECURSIVE firstNonZero(_)
firstNonZero(values) ==
  IF Len(values) = 0 THEN 0
  ELSE IF Head(values) > 0 THEN Head(values)
  ELSE firstNonZero(Tail(values))

(***************************************************************************)
(* execCommand.run as a state machine.                                     *)
(***************************************************************************)
\* run has not started, or is not what is explored
InitRun(lists, at) ==
  /\ pc = at
  /\ Include \in lists
  /\ Exclude \in lists
  /\ compiled = <<>>
  /\ spec = <<>>
  /\ stageSteps = <<>>
  /\ stageStatus = StatusPending
  /\ kubeClient = 0
  /\ execCalls = 0
  /\ execErr = FALSE
  /\ inputErr = "none"
  /\ attempts = [s \in InputStageSet |-> 0]
  /\ exit = "running"

\* no helper of the compiler is being explored
InitHelpers(at) ==
  /\ gop = at
  /\ gorig = <<>>
  /\ gsteps = <<>>
  /\ when = [Include |-> <<>>, Exclude |-> <<>>]
  /\ runPolicy = <<>>
  /\ limits = <<>>
  /\ limit = <<>>

\* an input stage returns its error
Fail(s) ==
  /\ pc' = "done"
  /\ inputErr' = s
  /\ exit' = "error"

\* an input stage succeeds and run goes on
Pass(s) ==
  /\ pc' = NextStage(s)
  /\ UNCHANGED <<inputErr, exit>>

\* faulty variant: the error of an input stage is recorded but not returned
InputStageNoReturn(s) ==
  /\ pc = s
  /\ attempts' = [attempts EXCEPT ![s] = @ + 1]
  /\ \/ /\ pc' = NextStage(s)
        /\ inputErr' = s
        /\ exit' = exit
     \/ Pass(s)
  /\ UNCHANGED <<Include, Exclude, compiled, spec, stageSteps, stageStatus,
                 kubeClient, execCalls, execErr, helperVars>>

\* one input stage: it is run once and either fails or passes
InputStage(s) ==
  /\ pc = s
  /\ attempts' = [attempts EXCEPT ![s] = @ + 1]
  /\ \/ Fail(s)
     \/ Pass(s)
  /\ UNCHANGED <<Include, Exclude, compiled, spec, stageSteps, stageStatus,
                 kubeClient, execCalls, execErr, helperVars>>

ReadSource == InputStage("read")

\* the policy file is parsed only when c.Policy is set
ParsePolicy ==
  \/ InputStage("policy")
  \/ /\ pc = "policy"
     /\ pc' = NextStage("policy")
     /\ UNCHANGED <<Include, Exclude, compiled, spec, stageSteps, stageStatus,
                    kubeClient, execCalls, execErr, inputErr, attempts, exit,
                    helperVars>>

Substitute == InputStage("subst")

ParseManifest == InputStage("parse")

Lookup == InputStage("lookup")

Lint == InputStage("lint")

\* comp.Compile returns one of the step lists of `lists`
Compile(lists) ==
  /\ pc = "compile"
  /\ \E s \in lists :
       /\ compiled' = s
       /\ spec' = s
  /\ pc' = "filter"
  /\ UNCHANGED <<Include, Exclude, stageSteps, stageStatus, kubeClient,
                 execCalls, execErr, inputErr, attempts, exit, helperVars>>

\* faulty variant: the exclude list is read only when the include list is empty
StepFilterElseIf ==
  /\ pc = "filter"
  /\ spec' = IF Len(Include) > 0
               THEN FilterInclude(spec, Include)
               ELSE FilterExclude(spec, Exclude)
  /\ pc' = "records"
  /\ UNCHANGED <<Include, Exclude, compiled, stageSteps, stageStatus,
                 kubeClient, execCalls, execErr, inputErr, attempts, exit,
                 helperVars>>

\* the include loop, then the exclude loop
StepFilter ==
  /\ pc = "filter"
  /\ spec' = FilterExclude(FilterInclude(spec, Include), Exclude)
  /\ pc' = "records"
  /\ UNCHANGED <<Include, Exclude, compiled, stageSteps, stageStatus,
                 kubeClient, execCalls, execErr, inputErr, attempts, exit,
                 helperVars>>

CreateRecords ==
  /\ pc = "records"
  /\ stageSteps' = CreateSteps(stageSteps, spec, Len(spec))
  /\ pc' = "client"
  /\ UNCHANGED <<Include, Exclude, compiled, spec, stageStatus, kubeClient,
                 execCalls, execErr, inputErr, attempts, exit, helperVars>>

\* the stage is set running, then the backend client is created or fails
NewKubeClient ==
  /\ pc = "client"
  /\ stageStatus' = StatusRunning
  /\ kubeClient' = kubeClient + 1
  /\ \/ /\ pc' = "done"
        /\ exit' = "error"
     \/ /\ pc' = "exec"
        /\ exit' = exit
  /\ UNCHANGED <<Include, Exclude, compiled, spec, stageSteps, execCalls,
                 execErr, inputErr, attempts, helperVars>>

\* the execution driver runs the stage and leaves its status and its error
Exec ==
  /\ pc = "exec"
  /\ execCalls' = execCalls + 1
  /\ execErr' \in BOOLEAN
  /\ stageStatus' \in StageStatuses
  /\ pc' = "exit"
  /\ UNCHANGED <<Include, Exclude, compiled, spec, stageSteps, kubeClient,
                 inputErr, attempts, exit, helperVars>>

Exit ==
  /\ pc = "exit"
  /\ exit' = ExitOutcome(execErr, stageStatus)
  /\ pc' = "done"
  /\ UNCHANGED <<Include, Exclude, compiled, spec, stageSteps, stageStatus,
                 kubeClient, execCalls, execErr, inputErr, attempts,
                 helperVars>>

\* the whole run, from reading the source to the exit
Init ==
  /\ InitRun(ListsOf(StepNames, MaxList), "read")
  /\ InitHelpers("idle")

Next ==
  \/ ReadSource
  \/ ParsePolicy
  \/ Substitute
  \/ ParseManifest
  \/ Lookup
  \/ Lint
  \/ Compile(StepLists(MaxRunSteps))
  \/ StepFilter
  \/ CreateRecords
  \/ NewKubeClient
  \/ Exec
  \/ Exit

Spec == Init /\ [][Next]_vars

\* the step filter and the step records, from a linted pipeline on
InitFilter ==
  /\ InitRun(ListsOf(StepNames, MaxList), "compile")
  /\ InitHelpers("idle")

NextFilter ==
  \/ Compile(StepLists(MaxSteps))
  \/ StepFilter
  \/ CreateRecords

SpecFilter == InitFilter /\ [][NextFilter]_vars

(***************************************************************************)
(* The helpers of the compiler, each applied to the inputs of a bounded    *)
(* set.                                                                    *)
(***************************************************************************)
InitGraph ==
  /\ InitRun({<<>>}, "idle")
  /\ gop = "none"
  /\ \E names \in NameLists(MaxGraphSteps) :
       \E deps \in [1..Len(names) -> ListsOf(DepNames, MaxDeps)] :
         gorig = GraphList(names, deps)
  /\ gsteps = gorig
  /\ when = [Include |-> <<>>, Exclude |-> <<>>]
  /\ runPolicy = <<>>
  /\ limits = <<>>
  /\ limit = <<>>

ConfigureSerial ==
  /\ gop = "none"
  /\ gsteps' = configureSerial(gsteps)
  /\ gop' = "serial"
  /\ UNCHANGED <<runVars, gorig, when, runPolicy, limits, limit>>

RemoveCloneDeps ==
  /\ gop = "none"
  /\ gsteps' = removeCloneDeps(gsteps)
  /\ gop' = "remove"
  /\ UNCHANGED <<runVars, gorig, when, runPolicy, limits, limit>>

NextGraph ==
  \/ ConfigureSerial
  \/ RemoveCloneDeps

SpecGraph == InitGraph /\ [][NextGraph]_vars

InitPolicy ==
  /\ InitRun({<<>>}, "idle")
  /\ gop = "idle"
  /\ gorig = <<>>
  /\ gsteps = <<>>
  /\ when \in Conditions
  /\ runPolicy = <<>>
  /\ limits = <<>>
  /\ limit = <<>>

Resolve ==
  /\ runPolicy = <<>>
  /\ runPolicy' = <<ResolveRunPolicy(when)>>
  /\ UNCHANGED <<runVars, gop, gorig, gsteps, when, limits, limit>>

SpecPolicy == InitPolicy /\ [][Resolve]_vars

InitLimits ==
  /\ InitRun({<<>>}, "idle")
  /\ gop = "idle"
  /\ gorig = <<>>
  /\ gsteps = <<>>
  /\ when = [Include |-> <<>>, Exclude |-> <<>>]
  /\ runPolicy = <<>>
  /\ limits \in [1..3 -> LimitValues]
  /\ limit = <<>>

ResolveLimit ==
  /\ limit = <<>>
  /\ limit' = <<firstNonZero(limits)>>
  /\ UNCHANGED <<runVars, gop, gorig, gsteps, when, runPolicy, limits>>

SpecLimits == InitLimits /\ [][ResolveLimit]_vars

(***************************************************************************)
(* The claims.                                                             *)
(***************************************************************************)
\* the step filter has run
Filtered == pc \in {"records", "client", "exec", "exit"}

\* the step records have been created
Recorded == pc \in {"client", "exec", "exit"}

Named(step, list) == step.Name # "clone" /\ InList(step.Name, list)

NotNamed(step, list) == step.Name # "clone" /\ ~InList(step.Name, list)

\* the filter leaves the list, the names and the error policies alone
SameSteps ==
  /\ Len(spec) = Len(compiled)
  /\ \A i \in 1..Len(compiled) :
       /\ spec[i].Name = compiled[i].Name
       /\ spec[i].ErrPolicy = compiled[i].ErrPolicy

\* C1 as stated: with both lists non-empty only the include list takes
\* effect, so that every step ends with the run policy the include list alone
\* gives it (a step named in both lists keeps its compiled run policy).
C1_OnlyIncludeHonored ==
  (Filtered /\ Len(Include) > 0 /\ Len(Exclude) > 0) =>
    /\ SameSteps
    /\ \A i \in 1..Len(compiled) :
         spec[i].RunPolicy =
           IF NotNamed(compiled[i], Include)
             THEN RunNever
             ELSE compiled[i].RunPolicy

\* C1 amended: with both lists non-empty both take effect: a step other
\* than clone that is not named in the include list, or is named in the exclude
\* list, ends with run policy never, and every other step keeps its compiled
\* run policy.
C1_BothListsApplied ==
  (Filtered /\ Len(Include) > 0 /\ Len(Exclude) > 0) =>
    /\ SameSteps
    /\ \A i \in 1..Len(compiled) :
         spec[i].RunPolicy =
           IF NotNamed(compiled[i], Include) \/ Named(compiled[i], Exclude)
             THEN RunNever
             ELSE compiled[i].RunPolicy

\* a step named in both lists was compiled to run and is forced to never,
\* beside a clone step that keeps its policy
C1_Witness ==
  /\ Filtered
  /\ Include = <<"build">>
  /\ Exclude = <<"build">>
  /\ Len(compiled) = 2
  /\ compiled[1].Name = "clone"
  /\ compiled[1].RunPolicy = RunOnSuccess
  /\ spec[1].RunPolicy = RunOnSuccess
  /\ compiled[2].Name = "build"
  /\ compiled[2].RunPolicy = RunAlways
  /\ spec[2].RunPolicy = RunNever

\* C2: with a non-empty include list and an empty exclude list, after the
\* step filter every step that is neither clone nor named in the include list
\* has run policy never, and every step that is clone or named in the list has
\* the run policy it was compiled with.
C2_IncludeFilter ==
  (Filtered /\ Len(Include) > 0 /\ Len(Exclude) = 0) =>
    /\ SameSteps
    /\ \A i \in 1..Len(compiled) :
         /\ NotNamed(compiled[i], Include) => spec[i].RunPolicy = RunNever
         /\ ~NotNamed(compiled[i], Include) =>
              spec[i].RunPolicy = compiled[i].RunPolicy

\* build is included and keeps its policy, test is not and is forced to never
C2_Witness ==
  /\ Filtered
  /\ Include = <<"build">>
  /\ Exclude = <<>>
  /\ Len(compiled) = 2
  /\ compiled[1].Name = "build"
  /\ compiled[1].RunPolicy = RunOnFailure
  /\ spec[1].RunPolicy = RunOnFailure
  /\ compiled[2].Name = "test"
  /\ compiled[2].RunPolicy = RunOnSuccess
  /\ spec[2].RunPolicy = RunNever

\* C3: with an empty include list and a non-empty exclude list, after the
\* step filter every step named in the exclude list other than clone has run
\* policy never, and every other step (clone too, even when the list names
\* it) has the run policy it was compiled with.
C3_ExcludeFilter ==
  (Filtered /\ Len(Include) = 0 /\ Len(Exclude) > 0) =>
    /\ SameSteps
    /\ \A i \in 1..Len(compiled) :
         /\ Named(compiled[i], Exclude) => spec[i].RunPolicy = RunNever
         /\ ~Named(compiled[i], Exclude) =>
              spec[i].RunPolicy = compiled[i].RunPolicy

\* test is excluded and forced to never, build is not and keeps its policy
C3_Witness ==
  /\ Filtered
  /\ Include = <<>>
  /\ Exclude = <<"test">>
  /\ Len(compiled) = 2
  /\ compiled[1].Name = "build"
  /\ compiled[1].RunPolicy = RunAlways
  /\ spec[1].RunPolicy = RunAlways
  /\ compiled[2].Name = "test"
  /\ compiled[2].RunPolicy = RunOnSuccess
  /\ spec[2].RunPolicy = RunNever

FailureStatuses == {StatusError, StatusFailing, StatusKilled}

\* C4: once Exec has returned, run ends with a non-zero exit (a returned
\* error or os.Exit(1)) if and only if Exec returned an error or the status of
\* the stage is error, failing or killed; in every other case it returns nil.
C4_ExitStatus ==
  (pc = "done" /\ execCalls > 0) =>
    /\ exit \in {"error", "exit1", "nil"}
    /\ exit \in {"error", "exit1"} <=>
         (execErr \/ stageStatus \in FailureStatuses)
    /\ ~(execErr \/ stageStatus \in FailureStatuses) => exit = "nil"

\* Exec returned no error, the stage was killed and the process exits with 1
C4_Witness ==
  /\ pc = "done"
  /\ execCalls = 1
  /\ ~execErr
  /\ stageStatus = StatusKilled
  /\ exit = "exit1"

\* C5: when an input stage (reading the source, parsing the policy file,
\* substitution, parsing the manifest, the pipeline lookup, linting) fails,
\* run has ended with that error, the stage was run once and no stage more
\* than once, the backend client was never created, the execution driver never
\* invoked, and nothing more happens.
C5_InputErrorIsFinal ==
  inputErr # "none" =>
    /\ pc = "done"
    /\ exit = "error"
    /\ attempts[inputErr] = 1
    /\ \A s \in InputStageSet : attempts[s] <= 1
    /\ kubeClient = 0
    /\ execCalls = 0
    /\ ~ENABLED Next

\* linting failed after every earlier input stage had passed
C5_Witness ==
  /\ inputErr = "lint"
  /\ pc = "done"
  /\ exit = "error"
  /\ attempts["policy"] = 1
  /\ attempts["lookup"] = 1
  /\ kubeClient = 0

\* C6: for a step list in which no step has a DependsOn, after configureSerial
\* the first step has an empty DependsOn and every later step has a DependsOn
\* of exactly the name of the step before it.
C6_SerialChain ==
  (gop = "serial" /\ ~isGraph(gorig)) =>
    /\ Len(gsteps) = Len(gorig)
    /\ \A i \in 1..Len(gorig) :
         /\ gsteps[i].Name = gorig[i].Name
         /\ i = 1 => gsteps[i].DependsOn = <<>>
         /\ i > 1 => gsteps[i].DependsOn = <<gorig[i - 1].Name>>

\* two steps without dependencies were chained
C6_Witness ==
  /\ gop = "serial"
  /\ Len(gorig) = 2
  /\ gorig[1] = [Name |-> "build", DependsOn |-> <<>>]
  /\ gorig[2] = [Name |-> "test", DependsOn |-> <<>>]
  /\ gsteps[1].DependsOn = <<>>
  /\ gsteps[2].DependsOn = <<"build">>

HasStep(steps, name) == \E j \in 1..Len(steps) : steps[j].Name = name

\* C7: for a step list without a clone step in which every DependsOn entry
\* names a step of the list or clone, after removeCloneDeps every DependsOn
\* entry of every step names a step of the list, whatever the length of the
\* DependsOn lists.
C7_NoDanglingClone ==
  ( /\ gop = "remove"
    /\ ~HasStep(gorig, "clone")
    /\ \A i \in 1..Len(gorig) : \A k \in 1..Len(gorig[i].DependsOn) :
         \/ HasStep(gorig, gorig[i].DependsOn[k])
         \/ gorig[i].DependsOn[k] = "clone" ) =>
    \A i \in 1..Len(gsteps) : \A k \in 1..Len(gsteps[i].DependsOn) :
      HasStep(gsteps, gsteps[i].DependsOn[k])

\* the condition has no pattern at all
NoPatterns == Len(when.Include) = 0 /\ Len(when.Exclude) = 0

\* C8: the run policy resolved by testing isRunAlways first and
\* isRunOnFailure second is, reading the cases in this order: on-success when
\* both lists are empty; always (never on-failure) when the condition matches
\* the failing and the passing status, whatever else it matches; on-failure
\* when it matches the failing but not the passing status; on-success
\* otherwise.
C8_RunPolicy ==
  runPolicy # <<>> =>
    /\ NoPatterns => runPolicy[1] = RunOnSuccess
    /\ (~NoPatterns /\ Match(when, StatusFailing)
          /\ Match(when, StatusPassing)) => runPolicy[1] = RunAlways
    /\ (~NoPatterns /\ Match(when, StatusFailing)
          /\ ~Match(when, StatusPassing)) => runPolicy[1] = RunOnFailure
    /\ (~NoPatterns /\ ~Match(when, StatusFailing)) =>
         runPolicy[1] = RunOnSuccess

\* a condition that matches failing, passing and more resolves to always
C8_Witness ==
  /\ when = [Include |-> <<"*">>, Exclude |-> <<StatusKilled>>]
  /\ Match(when, StatusError)
  /\ runPolicy = <<RunAlways>>

\* positions of the candidates that are not zero / that are positive
NonZeroAt(i) == limits[i] # 0 /\ \A j \in 1..(i - 1) : limits[j] = 0

PositiveAt(i) == limits[i] > 0 /\ \A j \in 1..(i - 1) : limits[j] <= 0

\* C9 as stated: for every three integer candidates firstNonZero returns the
\* first candidate, in priority order, that is not zero, and returns 0 only
\* when every candidate is zero.
C9_FirstNonZero ==
  limit # <<>> =>
    /\ \A i \in 1..Len(limits) : NonZeroAt(i) => limit[1] = limits[i]
    /\ limit[1] = 0 => \A i \in 1..Len(limits) : limits[i] = 0

\* C9 amended: for every three integer candidates firstNonZero returns the
\* first candidate, in priority order, that is greater than zero, and returns
\* 0 exactly when no candidate is greater than zero; when no candidate is
\* negative that is the first candidate that is not zero.
C9_FirstPositive ==
  limit # <<>> =>
    /\ \A i \in 1..Len(limits) : PositiveAt(i) => limit[1] = limits[i]
    /\ limit[1] = 0 <=> \A i \in 1..Len(limits) : limits[i] <= 0
    /\ (\A i \in 1..Len(limits) : limits[i] >= 0) =>
         \A i \in 1..Len(limits) : NonZeroAt(i) => limit[1] = limits[i]

\* no step limit, a pipeline default of 512 and a global default of 256
C9_Witness ==
  /\ limits = <<0, 512, 256>>
  /\ limit = <<512>>

Runs(step) == step.RunPolicy # RunNever

\* C10: from a stage without step records, after the step filter and the
\* record loop the records of the stage are, in order, one for each step whose
\* run policy is not never: the k-th record has the name of the k-th such
\* step, Number k, status pending and ErrIgnore set exactly when the error
\* policy of the step is ignore; no step with run policy never has a record.
C10_StepRecords ==
  Recorded =>
    LET kept == SelectSeq(spec, Runs)
    IN /\ Len(stageSteps) = Len(kept)
       /\ \A k \in 1..Len(kept) :
            stageSteps[k] =
              [Number |-> k,
               Name |-> kept[k].Name,
               Status |-> StatusPending,
               ErrIgnore |-> (kept[k].ErrPolicy = ErrIgnore)]
       /\ \A i \in 1..Len(spec) :
            spec[i].RunPolicy = RunNever =>
              \A k \in 1..Len(stageSteps) : stageSteps[k].Name # spec[i].Name

\* two steps run and get the records 1 and 2, the second ignoring errors
C10_Witness ==
  /\ Recorded
  /\ Len(spec) = 2
  /\ spec[1].RunPolicy = RunOnSuccess
  /\ spec[2].RunPolicy = RunAlways
  /\ spec[2].ErrPolicy = ErrIgnore
  /\ Len(stageSteps) = 2
  /\ stageSteps[1].Number = 1
  /\ stageSteps[2].Number = 2
  /\ stageSteps[2].ErrIgnore

====
